---- MODULE Spec2Model ----
(***************************************************************************)
(* Chick-mash price advisor: the ChickMashPredictor of myapp/chickmash.py  *)
(* and the five request handlers of myapp/views.py.                        *)
(*                                                                         *)
(* Units.  A price is a Python float; here a raw model output (yhat) is an *)
(* integer number of thousandths and a rounded price an integer number of  *)
(* hundredths, so that round(x, 2) is a real conversion.  A percentage is  *)
(* an integer number of hundredths of a percent.                           *)
(* Text.  A month name is the sequence of its characters, so that the      *)
(* slice month[:3] of the chart label is computed, not looked up.          *)
(***************************************************************************)
EXTENDS Integers, Sequences, FiniteSets, TLC

VARIABLES
    model,  \* the loaded Prophet artifact (self.model), read-only after load
    now,    \* datetime.now().year
    last    \* the most recent call: its operation, arguments and outcome

vars == <<model, now, last>>

---------------------------------------------------------------------------
(* Program constants *)

CutoffYear == 2024
CutoffMonth == 12
FirstMonth == 1
LastMonth == 12
TopN == 3
DefaultYears == 3

(* Bounds of the model *)

MaxNow == 2026        \* the clock runs from the cutoff year to MaxNow
MaxYear == 2026       \* years a caller asks about: CutoffYear..MaxYear
MaxYears == 2         \* year counts a caller asks for: -1..MaxYears
Period == 3           \* season length of the artifacts' price pattern
FailFrom == 14        \* a faulty artifact raises for horizons >= FailFrom

---------------------------------------------------------------------------
(* Text *)

MonthName ==
    << <<"J","a","n","u","a","r","y">>,
       <<"F","e","b","r","u","a","r","y">>,
       <<"M","a","r","c","h">>,
       <<"A","p","r","i","l">>,
       <<"M","a","y">>,
       <<"J","u","n","e">>,
       <<"J","u","l","y">>,
       <<"A","u","g","u","s","t">>,
       <<"S","e","p","t","e","m","b","e","r">>,
       <<"O","c","t","o","b","e","r">>,
       <<"N","o","v","e","m","b","e","r">>,
       <<"D","e","c","e","m","b","e","r">> >>

\* s[:n]
Prefix(s, n) == SubSeq(s, 1, IF Len(s) < n THEN Len(s) ELSE n)

\* s[-n:]
Suffix(s, n) == SubSeq(s, IF Len(s) < n THEN 1 ELSE Len(s) - n + 1, Len(s))

Digit == <<"0","1","2","3","4","5","6","7","8","9">>

\* str(n) for n >= 0
RECURSIVE Str(_)
Str(n) == IF n < 10 THEN <<Digit[n + 1]>>
          ELSE Str(n \div 10) \o <<Digit[(n % 10) + 1]>>

---------------------------------------------------------------------------
(* Numbers *)

\* n / d rounded to the nearest integer, halves to even (d > 0)
RoundDiv(n, d) ==
    LET q == n \div d
        r == n % d
    IN  IF 2 * r < d THEN q
        ELSE IF 2 * r > d THEN q + 1
        ELSE IF q % 2 = 0 THEN q ELSE q + 1

\* round(float(x), 2): thousandths to hundredths
Round2(x) == RoundDiv(x, 10)

---------------------------------------------------------------------------
(* The forecasting library behind self.model (Prophet), an external         *)
(* collaborator: make_future_dataframe(periods, freq='M') followed by       *)
(* predict.  An artifact is fixed by its fitted price pattern, by whether   *)
(* its history ends on the first or on the last day of the cutoff month     *)
(* (month-end future dates then start in the cutoff month or in the month   *)
(* after it), and by whether predict raises for long horizons.              *)

Levels == {0, 5002}
Trends == {0, 5002}

Artifacts ==
    [base : [0 .. Period - 1 -> Levels], trend : Trends,
     lastDay : {1, 31}, faulty : BOOLEAN]

\* the calendar month p months after the cutoff month
MonthAfterCutoff(p) ==
    LET idx == CutoffYear * 12 + (CutoffMonth - 1) + p
    IN  [year |-> idx \div 12, month |-> (idx % 12) + 1]

MonthEnd(year, month) ==
    IF month = 2 THEN (IF year % 4 = 0 THEN 29 ELSE 28)
    ELSE IF month \in {4, 6, 9, 11} THEN 30 ELSE 31

Yhat(mdl, p) == mdl.base[p % Period] + mdl.trend * p

ForecastRow(mdl, p, day) ==
    LET ym == MonthAfterCutoff(p)
        y  == Yhat(mdl, p)
    IN  [ds |-> [year |-> ym.year, month |-> ym.month, day |-> day],
         yhat |-> y, yhat_lower |-> y - (y \div 10), yhat_upper |-> y + (y \div 10)]

\* the first future date is the first month end after the last history date
FirstFuture(mdl) == IF mdl.lastDay = 1 THEN 0 ELSE 1

\* future = make_future_dataframe(periods, freq='M'); forecast = predict(future)
Predict(mdl, periods) ==
    IF mdl.faulty /\ periods >= FailFrom
    THEN [raised |-> TRUE, rows |-> <<>>]
    ELSE [raised |-> FALSE,
          rows |-> <<ForecastRow(mdl, 0, mdl.lastDay)>> \o
                   [j \in 1 .. periods |->
                      LET p == FirstFuture(mdl) + j - 1
                          ym == MonthAfterCutoff(p)
                      IN  ForecastRow(mdl, p, MonthEnd(ym.year, ym.month))]]

---------------------------------------------------------------------------
(* ChickMashPredictor._predict_month *)

\* ds.dt.to_period('M'), pd.Period(target_date, freq='M')
ToPeriodM(d) == [year |-> d.year, month |-> d.month]

MonthsAheadFromJanuary(year, month) ==
    (year - CutoffYear) * 12 + (month - FirstMonth)
MonthsAhead(year, month) ==
    (year - CutoffYear) * 12 + (month - CutoffMonth)

IsHistoricalStrict(months_ahead) == months_ahead < 0
IsHistorical(months_ahead) == months_ahead <= 0

\* forecast[forecast['ds'].dt.to_period('M') == pd.Period(target_date, freq='M')]
LastRowOnly(rows, target) ==
    IF Len(rows) = 0 THEN <<>> ELSE <<rows[Len(rows)]>>
TargetPrediction(rows, target) ==
    SelectSeq(rows, LAMBDA r : ToPeriodM(r.ds) = target)

MonthFailed(cause, calls, months_ahead) ==
    [ok |-> FALSE, val |-> <<>>,
     err |-> <<"Month prediction failed">> \o cause,
     calls |-> calls, months_ahead |-> months_ahead]

PredictMonth(mdl, year, month) ==
    LET target_date  == [year |-> year, month |-> month, day |-> 1]
        months_ahead == MonthsAhead(target_date.year, target_date.month)
    IN  IF IsHistorical(months_ahead)
        THEN [ok |-> TRUE,
              val |-> [month |-> MonthName[target_date.month], year |-> year,
                       predicted_price |-> 0, note |-> "Historical data"],
              err |-> <<>>, calls |-> <<>>, months_ahead |-> months_ahead]
        ELSE LET forecast == Predict(mdl, months_ahead)
                 call == <<[periods |-> months_ahead, raised |-> forecast.raised]>>
             IN  IF forecast.raised
                 THEN MonthFailed(<<"model error">>, call, months_ahead)
                 ELSE LET target_prediction ==
                              TargetPrediction(forecast.rows, ToPeriodM(target_date))
                      IN  IF Len(target_prediction) = 0
                          THEN MonthFailed(<<"No prediction found">>, call, months_ahead)
                          ELSE LET prediction_data == target_prediction[1]
                               IN  [ok |-> TRUE,
                                    val |-> [month |-> MonthName[target_date.month],
                                             year |-> year,
                                             predicted_price |-> Round2(prediction_data.yhat),
                                             lower_bound |-> Round2(prediction_data.yhat_lower),
                                             upper_bound |-> Round2(prediction_data.yhat_upper)],
                                    err |-> <<>>, calls |-> call,
                                    months_ahead |-> months_ahead]

---------------------------------------------------------------------------
(* ChickMashPredictor.predict_year *)

CollectFront(predictions, prediction) == <<prediction>> \o predictions
Collect(predictions, prediction) == Append(predictions, prediction)

YearPartial(predictions, r, calls) ==
    [ok |-> TRUE, val |-> predictions, err |-> <<>>, calls |-> calls]
\* except Exception as e: raise Exception(f"Year prediction failed: {e}")
YearFailed(predictions, r, calls) ==
    [ok |-> FALSE, val |-> <<>>,
     err |-> <<"Year prediction failed">> \o r.err, calls |-> calls]

RECURSIVE YearLoop(_, _, _, _, _)
RECURSIVE YearStep(_, _, _, _, _, _)

\* for month in range(1, 13): prediction = self._predict_month(year, month)
YearLoop(mdl, year, month, predictions, calls) ==
    IF month > LastMonth
    THEN [ok |-> TRUE, val |-> predictions, err |-> <<>>, calls |-> calls]
    ELSE YearStep(mdl, year, month, predictions, calls,
                  PredictMonth(mdl, year, month))

\* predictions.append(prediction), unless _predict_month raised
YearStep(mdl, year, month, predictions, calls, r) ==
    IF ~r.ok
    THEN YearFailed(predictions, r, calls \o r.calls)
    ELSE YearLoop(mdl, year, month + 1,
                  Collect(predictions, r.val), calls \o r.calls)

PredictYear(mdl, year) == YearLoop(mdl, year, FirstMonth, <<>>, <<>>)

---------------------------------------------------------------------------
(* ChickMashPredictor.get_best_months *)

\* sorted(predictions, key=lambda x: x['predicted_price']): one insertion of
\* the stable sort, x going behind every entry whose price is not higher
InsertBeforeEqual(sorted, x) ==
    LET k == Cardinality({i \in 1 .. Len(sorted) :
                            sorted[i].predicted_price < x.predicted_price})
    IN  SubSeq(sorted, 1, k) \o <<x>> \o SubSeq(sorted, k + 1, Len(sorted))
InsertByPrice(sorted, x) ==
    LET k == Cardinality({i \in 1 .. Len(sorted) :
                            sorted[i].predicted_price <= x.predicted_price})
    IN  SubSeq(sorted, 1, k) \o <<x>> \o SubSeq(sorted, k + 1, Len(sorted))

RECURSIVE SortFrom(_, _, _)
SortFrom(predictions, i, sorted) ==
    IF i > Len(predictions) THEN sorted
    ELSE SortFrom(predictions, i + 1, InsertByPrice(sorted, predictions[i]))

SortedByPrice(predictions) == SortFrom(predictions, 1, <<>>)

RECURSIVE SumPrices(_)
SumPrices(months) ==
    IF Len(months) = 0 THEN 0
    ELSE Head(months).predicted_price + SumPrices(Tail(months))

BuyReasonTable ==
    <<"Post-holiday prices usually drop", "Short month, stable low prices",
      "Before peak season price rise", "Good pre-rainy season prices",
      "Planting season, lower demand", "Mid-year price stability",
      "Strategic buying opportunity", "Pre-harvest favorable prices",
      "Harvest begins, supply increases", "Typically the lowest prices",
      "Before holiday price surge", "Avoid - holiday premium prices">>

SellReasonTable ==
    <<"New year demand recovery", "Valentine season demand",
      "Peak season highest prices", "Easter holiday demand",
      "Pre-planting demand spike", "Mid-year budget spending",
      "Stable high demand period", "Back-to-school demand",
      "Post-harvest demand rise", "Pre-holiday stocking begins",
      "Holiday preparation peak", "Highest holiday season prices">>

\* reasons.get(month, default)
Lookup(table, month, default) ==
    IF \E i \in 1 .. Len(MonthName) : MonthName[i] = month
    THEN table[CHOOSE i \in 1 .. Len(MonthName) : MonthName[i] = month]
    ELSE default

GetBuyReason(month) == Lookup(BuyReasonTable, month, "Good buying conditions")
GetSellReason(month) == Lookup(SellReasonTable, month, "High demand period")

RecommendBuy(months) ==
    [i \in 1 .. Len(months) |->
        [month |-> months[i].month, price |-> months[i].predicted_price,
         reason |-> GetBuyReason(months[i].month)]]

RecommendSell(months) ==
    [i \in 1 .. Len(months) |->
        [month |-> months[i].month, price |-> months[i].predicted_price,
         reason |-> GetSellReason(months[i].month)]]

\* except Exception as e: raise Exception(f"Best months analysis failed: {e}")
BestMonthsFailed(cause, calls) ==
    [ok |-> FALSE, val |-> <<>>,
     err |-> <<"Best months analysis failed">> \o cause, calls |-> calls]

BestBuy(sorted_predictions) == Prefix(sorted_predictions, TopN)
BestSell(sorted_predictions) == Suffix(sorted_predictions, TopN)

\* avg_buy = sum_buy / 3, avg_sell = sum_sell / 3,
\* profit_margin = ((avg_sell - avg_buy) / avg_buy) * 100
ProfitAnalysis(year, best_buy, best_sell, sum_buy, sum_sell, calls) ==
    IF sum_buy = 0
    THEN BestMonthsFailed(<<"float division by zero">>, calls)
    ELSE [ok |-> TRUE,
          val |-> [year |-> year,
                   best_buy_months |-> RecommendBuy(best_buy),
                   best_sell_months |-> RecommendSell(best_sell),
                   profit_analysis |->
                      [average_buy_price |-> RoundDiv(sum_buy, 3),
                       average_sell_price |-> RoundDiv(sum_sell, 3),
                       potential_profit_margin |->
                          RoundDiv((sum_sell - sum_buy) * 10000, sum_buy),
                       annual_low |-> best_buy[1].predicted_price,
                       annual_high |-> best_sell[Len(best_sell)].predicted_price]],
          err |-> <<>>, calls |-> calls]

SelectBest(year, best_buy, best_sell, calls) ==
    ProfitAnalysis(year, best_buy, best_sell,
                   SumPrices(best_buy), SumPrices(best_sell), calls)

RankMonths(year, sorted_predictions, calls) ==
    SelectBest(year, BestBuy(sorted_predictions), BestSell(sorted_predictions),
               calls)

BestOfYear(year, predictions) ==
    IF ~predictions.ok
    THEN BestMonthsFailed(predictions.err, predictions.calls)
    ELSE RankMonths(year, SortedByPrice(predictions.val), predictions.calls)

GetBestMonths(mdl, year) == BestOfYear(year, PredictYear(mdl, year))

---------------------------------------------------------------------------
(* ChickMashPredictor.get_multi_year_predictions *)

\* current_year = datetime.now().year
StartYearNext(clock) == clock + 1
StartYear(clock) == clock

\* except Exception as e: raise Exception(f"Multi-year prediction failed: {e}")
MultiYearFailed(cause, calls) ==
    [ok |-> FALSE, val |-> <<>>,
     err |-> <<"Multi-year prediction failed">> \o cause, calls |-> calls]

\* all_predictions, a dict, as its items in insertion order
RECURSIVE MultiYearLoop(_, _, _, _, _)
RECURSIVE MultiYearStep(_, _, _, _, _, _)

\* for year in range(current_year, current_year + years)
MultiYearLoop(mdl, year, stop, all_predictions, calls) ==
    IF year >= stop
    THEN [ok |-> TRUE, val |-> all_predictions, err |-> <<>>, calls |-> calls]
    ELSE MultiYearStep(mdl, year, stop, all_predictions, calls,
                       PredictYear(mdl, year))

\* all_predictions[year] = predictions, unless predict_year raised
MultiYearStep(mdl, year, stop, all_predictions, calls, predictions) ==
    IF ~predictions.ok
    THEN MultiYearFailed(predictions.err, calls \o predictions.calls)
    ELSE MultiYearLoop(mdl, year + 1, stop,
            Append(all_predictions, [year |-> year, months |-> predictions.val]),
            calls \o predictions.calls)

YearRange(mdl, current_year, years) ==
    MultiYearLoop(mdl, current_year, current_year + years, <<>>, <<>>)

GetMultiYearPredictions(mdl, clock, years) ==
    YearRange(mdl, StartYear(clock), years)

---------------------------------------------------------------------------
(* ChickMashPredictor.generate_price_chart *)

\* f"{month_data['month'][:3]} {str(year)[-2:]}"
ChartLabelLong(month_data, year) ==
    Prefix(month_data.month, 3) \o <<" ">> \o Str(year)
ChartLabel(month_data, year) ==
    Prefix(month_data.month, 3) \o <<" ">> \o Suffix(Str(year), 2)

\* all_months and all_prices, as one sequence of points
RECURSIVE ChartSeries(_, _, _, _)
ChartSeries(predictions, k, i, points) ==
    IF k > Len(predictions) THEN points
    ELSE IF i > Len(predictions[k].months)
         THEN ChartSeries(predictions, k + 1, 1, points)
         ELSE ChartSeries(predictions, k, i + 1,
                 Append(points,
                        [label |-> ChartLabel(predictions[k].months[i],
                                              predictions[k].year),
                         price |-> predictions[k].months[i].predicted_price]))

\* except Exception as e: raise Exception(f"Chart generation failed: {e}")
ChartFailed(cause, calls) ==
    [ok |-> FALSE, val |-> <<>>, plotted |-> <<>>,
     err |-> <<"Chart generation failed">> \o cause, calls |-> calls]

\* plt.plot(all_months, all_prices, ...); plt.savefig(chart_path, ...)
PlotChart(clock, predictions) ==
    IF ~predictions.ok
    THEN ChartFailed(predictions.err, predictions.calls)
    ELSE [ok |-> TRUE,
          val |-> [file |-> "chickmash_predictions", stamp |-> clock],
          plotted |-> ChartSeries(predictions.val, 1, 1, <<>>),
          err |-> <<>>, calls |-> predictions.calls]

GeneratePriceChart(mdl, clock, years) ==
    PlotChart(clock, GetMultiYearPredictions(mdl, clock, years))

---------------------------------------------------------------------------
(* views.py: the request handlers.  A query parameter is absent, an integer *)
(* literal or other text.                                                   *)

Absent == [kind |-> "absent", value |-> 0]
Text == [kind |-> "text", value |-> 0]
IntParam(n) == [kind |-> "int", value |-> n]

\* int(request.GET.get(name, default))
ParseInt(param, default) ==
    IF param.kind = "absent" THEN [ok |-> TRUE, value |-> default]
    ELSE IF param.kind = "int" THEN [ok |-> TRUE, value |-> param.value]
    ELSE [ok |-> FALSE, value |-> 0]

\* except Exception as e: JsonResponse({'success': False, 'error': str(e)}, status=500)
ServerError(err, calls) ==
    [status |-> 500,
     body |-> [success |-> FALSE, error |-> err],
     calls |-> calls]

\* JsonResponse({'success': False, 'error': 'Cannot analyze past years'}, status=400)
PastYear ==
    [status |-> 400,
     body |-> [success |-> FALSE, error |-> <<"Cannot analyze past years">>],
     calls |-> <<>>]

Success(data, message, calls) ==
    [status |-> 200,
     body |-> [success |-> TRUE, data |-> data, message |-> message],
     calls |-> calls]

InvalidLiteral == <<"invalid literal for int()">>

BestBuyResponse(year, result) ==
    IF ~result.ok THEN ServerError(result.err, result.calls)
    ELSE Success([best_buy_months |-> result.val.best_buy_months,
                  profit_analysis |-> result.val.profit_analysis,
                  year |-> year],
                 <<"Best months to buy chicken mash in", year>>, result.calls)

BestBuyChecked(mdl, clock, year) ==
    IF ~year.ok THEN ServerError(InvalidLiteral, <<>>)
    ELSE IF year.value < clock THEN PastYear
    ELSE BestBuyResponse(year.value, GetBestMonths(mdl, year.value))

BestBuyMonthsView(mdl, clock, request) ==
    BestBuyChecked(mdl, clock, ParseInt(request.year, clock))

BestSellResponse(year, result) ==
    IF ~result.ok THEN ServerError(result.err, result.calls)
    ELSE Success([best_sell_months |-> result.val.best_sell_months,
                  profit_analysis |-> result.val.profit_analysis,
                  year |-> year],
                 <<"Best months to sell chicken mash in", year>>, result.calls)

BestSellChecked(mdl, clock, year) ==
    IF ~year.ok THEN ServerError(InvalidLiteral, <<>>)
    ELSE IF year.value < clock THEN PastYear
    ELSE BestSellResponse(year.value, GetBestMonths(mdl, year.value))

BestSellMonthsView(mdl, clock, request) ==
    BestSellChecked(mdl, clock, ParseInt(request.year, clock))

PricePredictionsResponse(years, predictions) ==
    IF ~predictions.ok THEN ServerError(predictions.err, predictions.calls)
    ELSE Success(predictions.val, <<"Price predictions for next", years>>,
                 predictions.calls)

PricePredictionsParsed(mdl, clock, years) ==
    IF ~years.ok THEN ServerError(InvalidLiteral, <<>>)
    ELSE PricePredictionsResponse(years.value,
            GetMultiYearPredictions(mdl, clock, years.value))

PricePredictionsView(mdl, clock, request) ==
    PricePredictionsParsed(mdl, clock, ParseInt(request.years, DefaultYears))

\* os.path.basename(chart_path) is the path itself: the chart is saved in
\* the working directory
ChartResponse(years, chart) ==
    IF ~chart.ok THEN ServerError(chart.err, chart.calls)
    ELSE Success([chart_path |-> chart.val, chart_url |-> chart.val],
                 <<"Price chart generated for", years>>, chart.calls)

ChartParsed(mdl, clock, years) ==
    IF ~years.ok THEN ServerError(InvalidLiteral, <<>>)
    ELSE ChartResponse(years.value, GeneratePriceChart(mdl, clock, years.value))

GeneratePriceChartView(mdl, clock, request) ==
    ChartParsed(mdl, clock, ParseInt(request.years, DefaultYears))

CompleteResponse(year, best_months, predictions, chart) ==
    IF ~chart.ok
    THEN ServerError(chart.err,
                     best_months.calls \o predictions.calls \o chart.calls)
    ELSE Success([year_analysis |-> best_months.val,
                  multi_year_predictions |-> predictions.val,
                  chart_info |-> [path |-> chart.val, url |-> chart.val]],
                 <<"Complete chicken mash analysis for", year>>,
                 best_months.calls \o predictions.calls \o chart.calls)

\* chart_path = chickmash_predictor.generate_price_chart(chart_years)
CompleteWithPredictions(mdl, clock, year, chart_years, best_months, predictions) ==
    IF ~predictions.ok
    THEN ServerError(predictions.err, best_months.calls \o predictions.calls)
    ELSE CompleteResponse(year, best_months, predictions,
                          GeneratePriceChart(mdl, clock, chart_years))

\* predictions = chickmash_predictor.get_multi_year_predictions(chart_years)
CompleteWithBest(mdl, clock, year, chart_years, best_months) ==
    IF ~best_months.ok
    THEN ServerError(best_months.err, best_months.calls)
    ELSE CompleteWithPredictions(mdl, clock, year, chart_years, best_months,
                                 GetMultiYearPredictions(mdl, clock, chart_years))

\* best_months = chickmash_predictor.get_best_months(year): no year check
CompleteParsed(mdl, clock, year, chart_years) ==
    IF ~year.ok \/ ~chart_years.ok THEN ServerError(InvalidLiteral, <<>>)
    ELSE CompleteWithBest(mdl, clock, year.value, chart_years.value,
                          GetBestMonths(mdl, year.value))

CompleteAnalysisView(mdl, clock, request) ==
    CompleteParsed(mdl, clock, ParseInt(request.year, clock),
                   ParseInt(request.chart_years, DefaultYears))

---------------------------------------------------------------------------
(* The state machine: the artifact is loaded once, the clock moves on, and  *)
(* callers invoke the predictor's methods and the request handlers.  The    *)
(* process is synchronous and single-threaded: a call starts when the one   *)
(* before it has returned.                                                  *)

Years == CutoffYear .. MaxYear
Months == FirstMonth .. LastMonth
YearCounts == -1 .. MaxYears
YearParams == {Absent, Text} \cup {IntParam(y) : y \in Years}
CountParams == {Absent, Text} \cup {IntParam(n) : n \in 0 .. MaxYears}

Idle == [op |-> "none", args |-> <<>>, now |-> 0, res |-> <<>>]

Called(op, args, res) ==
    /\ last = Idle
    /\ last' = [op |-> op, args |-> args, now |-> now, res |-> res]

Init ==
    /\ model \in Artifacts
    /\ now \in CutoffYear .. MaxNow
    /\ last = Idle

\* datetime.now() is read at a call; the year turns between calls
NewYear ==
    /\ last = Idle
    /\ now < MaxNow
    /\ now' = now + 1
    /\ UNCHANGED <<model, last>>

\* the caller takes the result, or the response is sent
Return ==
    /\ last # Idle
    /\ last' = Idle
    /\ UNCHANGED <<model, now>>

CallPredictMonth ==
    /\ \E year \in Years, month \in Months :
          Called("_predict_month", [year |-> year, month |-> month],
                 PredictMonth(model, year, month))
    /\ UNCHANGED <<model, now>>

CallPredictYear ==
    /\ \E year \in Years :
          Called("predict_year", [year |-> year], PredictYear(model, year))
    /\ UNCHANGED <<model, now>>

CallGetBestMonths ==
    /\ \E year \in Years :
          Called("get_best_months", [year |-> year], GetBestMonths(model, year))
    /\ UNCHANGED <<model, now>>

CallGetMultiYearPredictions ==
    /\ \E years \in YearCounts :
          Called("get_multi_year_predictions", [years |-> years],
                 GetMultiYearPredictions(model, now, years))
    /\ UNCHANGED <<model, now>>

CallGeneratePriceChart ==
    /\ \E years \in YearCounts :
          Called("generate_price_chart", [years |-> years],
                 GeneratePriceChart(model, now, years))
    /\ UNCHANGED <<model, now>>

BestBuyMonths ==
    /\ \E year \in YearParams :
          Called("best_buy_months", [year |-> year],
                 BestBuyMonthsView(model, now, [year |-> year]))
    /\ UNCHANGED <<model, now>>

BestSellMonths ==
    /\ \E year \in YearParams :
          Called("best_sell_months", [year |-> year],
                 BestSellMonthsView(model, now, [year |-> year]))
    /\ UNCHANGED <<model, now>>

PricePredictions ==
    /\ \E years \in CountParams :
          Called("price_predictions", [years |-> years],
                 PricePredictionsView(model, now, [years |-> years]))
    /\ UNCHANGED <<model, now>>

GenerateChart ==
    /\ \E years \in CountParams :
          Called("generate_price_chart_view", [years |-> years],
                 GeneratePriceChartView(model, now, [years |-> years]))
    /\ UNCHANGED <<model, now>>

CompleteAnalysis ==
    /\ \E year \in YearParams, chart_years \in CountParams :
          Called("complete_analysis", [year |-> year, chart_years |-> chart_years],
                 CompleteAnalysisView(model, now,
                                      [year |-> year, chart_years |-> chart_years]))
    /\ UNCHANGED <<model, now>>

Next ==
    \/ NewYear
    \/ Return
    \/ CallPredictMonth
    \/ CallPredictYear
    \/ CallGetBestMonths
    \/ CallGetMultiYearPredictions
    \/ CallGeneratePriceChart
    \/ BestBuyMonths
    \/ BestSellMonths
    \/ PricePredictions
    \/ GenerateChart
    \/ CompleteAnalysis

Spec == Init /\ [][Next]_vars

---------------------------------------------------------------------------
(* Properties *)

IsView(op) ==
    op \in {"best_buy_months", "best_sell_months", "price_predictions",
            "generate_price_chart_view", "complete_analysis"}

IsMethod(op) ==
    op \in {"_predict_month", "predict_year", "get_best_months",
            "get_multi_year_predictions", "generate_price_chart"}

\* the model call of some month raised during the last call
ModelCallRaised ==
    \E i \in 1 .. Len(last.res.calls) : last.res.calls[i].raised

AtOrBeforeCutoff(year, month) ==
    year < 2024 \/ (year = 2024 /\ month <= 12)

\* C1: a month whose horizon against the 2024-12 cutoff is <= 0 is answered
\* with price 0 and the note "Historical data", and the model is not called.
C1_HistoricalShortCircuit ==
    (last.op = "_predict_month"
       /\ (last.args.year - 2024) * 12 + (last.args.month - 12) <= 0)
    => /\ last.res.ok
       /\ last.res.val = [month |-> MonthName[last.args.month],
                          year |-> last.args.year,
                          predicted_price |-> 0, note |-> "Historical data"]
       /\ last.res.calls = <<>>

\* C1 witness: the cutoff month itself, 2024-12, has been asked for and
\* answered as historical.
C1_Witness ==
    /\ last.op = "_predict_month"
    /\ last.args.year = 2024 /\ last.args.month = 12
    /\ last.res.ok
    /\ last.res.val.predicted_price = 0
    /\ last.res.calls = <<>>

\* C2: when predict_year(y) returns, it returns exactly 12 entries and the
\* i-th is the forecast of calendar month i of year y: calendar order, not
\* price order.
C2_YearInCalendarOrder ==
    (last.op = "predict_year" /\ last.res.ok)
    => /\ Len(last.res.val) = 12
       /\ \A i \in 1 .. 12 :
             /\ last.res.val[i].month = MonthName[i]
             /\ last.res.val[i].year = last.args.year
             /\ last.res.val[i] = PredictMonth(model, last.args.year, i).val

\* C2 witness: a year forecast has been returned whose prices are not in
\* ascending order (January dearer than February).
C2_Witness ==
    /\ last.op = "predict_year"
    /\ last.res.ok
    /\ Len(last.res.val) = 12
    /\ last.res.val[1].predicted_price > last.res.val[2].predicted_price

\* the three cheapest months of a year forecast, cheapest first
ThreeCheapest(mdl, year) == Prefix(SortedByPrice(PredictYear(mdl, year).val), 3)
ThreeDearest(mdl, year) == Suffix(SortedByPrice(PredictYear(mdl, year).val), 3)

\* C3: with an average buy price of 0, get_best_months returns a result
\* (a sentinel margin) instead of an arithmetic fault; otherwise the margin
\* is round((avgSell - avgBuy) / avgBuy * 100, 2).
C3_MarginGuarded ==
    (last.op = "get_best_months" /\ PredictYear(model, last.args.year).ok)
    => LET sum_buy  == SumPrices(ThreeCheapest(model, last.args.year))
           sum_sell == SumPrices(ThreeDearest(model, last.args.year))
       IN  /\ last.res.ok
           /\ sum_buy # 0 =>
                last.res.val.profit_analysis.potential_profit_margin
                   = RoundDiv((sum_sell - sum_buy) * 10000, sum_buy)

\* month j comes before month i in the stable ascending order by price
Cheaper(preds, j, i) ==
    \/ preds[j].predicted_price < preds[i].predicted_price
    \/ (preds[j].predicted_price = preds[i].predicted_price /\ j < i)

\* the calendar month at position k of the stable ascending order
MonthAtRank(preds, k) ==
    CHOOSE i \in 1 .. Len(preds) :
        Cardinality({j \in 1 .. Len(preds) : Cheaper(preds, j, i)}) = k - 1

\* C4: the best buy months are the first 3 and the best sell months the
\* last 3 of the stable ascending sort of the 12 forecasts by price: each
\* list has length 3, is in ascending price order, and months of equal
\* price keep their calendar order.
C4_StableTopThree ==
    (last.op = "get_best_months" /\ last.res.ok)
    => LET preds == PredictYear(model, last.args.year).val
           buy   == last.res.val.best_buy_months
           sell  == last.res.val.best_sell_months
       IN  /\ Len(preds) = 12
           /\ Len(buy) = 3
           /\ Len(sell) = 3
           /\ \A k \in 1 .. 3 :
                 /\ buy[k].month = MonthName[MonthAtRank(preds, k)]
                 /\ buy[k].price = preds[MonthAtRank(preds, k)].predicted_price
                 /\ sell[k].month = MonthName[MonthAtRank(preds, 9 + k)]
                 /\ sell[k].price = preds[MonthAtRank(preds, 9 + k)].predicted_price
           /\ \A k \in 1 .. 2 :
                 buy[k].price <= buy[k + 1].price /\ sell[k].price <= sell[k + 1].price

\* C4 witness: a ranking has been returned for a year in which the cheapest
\* price is shared by more than three months, so that only the tie-break
\* decides which months are listed.
C4_Witness ==
    /\ last.op = "get_best_months"
    /\ last.res.ok
    /\ LET preds == PredictYear(model, last.args.year).val
       IN  Cardinality({i \in 1 .. 12 :
              preds[i].predicted_price
                 = last.res.val.best_buy_months[1].price}) > 3

\* C5: when the model call of any month raises, the operation fails with
\* its own level's error wrapped around the month-level one, returns none
\* of the months already computed, and a request handler answers with
\* success = false and status 500.
C5_FailureFailsEverything ==
    (last.op # "none" /\ ModelCallRaised)
    => LET month_error == <<"Month prediction failed", "model error">>
           year_error  == <<"Year prediction failed">> \o month_error
       IN  /\ IsMethod(last.op) =>
                /\ ~last.res.ok
                /\ Len(last.res.val) = 0
                /\ last.op = "_predict_month" => last.res.err = month_error
                /\ last.op = "predict_year" => last.res.err = year_error
                /\ last.op = "get_best_months" =>
                      last.res.err = <<"Best months analysis failed">> \o year_error
                /\ last.op = "get_multi_year_predictions" =>
                      last.res.err = <<"Multi-year prediction failed">> \o year_error
                /\ last.op = "generate_price_chart" =>
                      /\ last.res.err = <<"Chart generation failed",
                                          "Multi-year prediction failed">> \o year_error
                      /\ last.res.plotted = <<>>
           /\ IsView(last.op) =>
                /\ last.res.status = 500
                /\ last.res.body.success = FALSE
                /\ "data" \notin DOMAIN last.res.body
                /\ Len(last.res.body.error) >= 3

\* C5 witness: a request handler has answered after the model served one
\* month and raised on the next.
C5_Witness ==
    /\ last.op = "best_buy_months"
    /\ Len(last.res.calls) >= 2
    /\ ~last.res.calls[1].raised
    /\ ModelCallRaised
    /\ last.res.status = 500

\* C6: each handler that takes a year (best_buy_months, best_sell_months,
\* complete_analysis) rejects a year before the current one with status 400
\* and "Cannot analyze past years", before calling the advisor.
C6_PastYearRejected ==
    (/\ last.op \in {"best_buy_months", "best_sell_months", "complete_analysis"}
     /\ last.args.year.kind = "int"
     /\ last.args.year.value < last.now)
    => /\ last.res.status = 400
       /\ last.res.body.success = FALSE
       /\ last.res.body.error = <<"Cannot analyze past years">>
       /\ last.res.calls = <<>>

\* C7: the horizon of (year, month) is (year - 2024) * 12 + (month - 12);
\* it is > 0 exactly for a month after 2024-12, which takes the forecast
\* path, and <= 0 exactly for a month at or before 2024-12, which takes the
\* historical path; 2025-03 gives 3 and 2024-06 gives -6.
C7_Horizon ==
    last.op = "_predict_month"
    => LET year    == last.args.year
           month   == last.args.month
           horizon == last.res.months_ahead
       IN  /\ horizon = (year - 2024) * 12 + (month - 12)
           /\ (horizon <= 0) = AtOrBeforeCutoff(year, month)
           /\ horizon > 0 => /\ Len(last.res.calls) = 1
                             /\ last.res.calls[1].periods = horizon
           /\ horizon <= 0 => /\ last.res.calls = <<>>
                              /\ last.res.val.note = "Historical data"
           /\ (year = 2025 /\ month = 3) => horizon = 3
           /\ (year = 2024 /\ month = 6) => horizon = -6

\* C7 witness: 2025-03 has been asked for, its horizon was 3 and the model
\* was called.
C7_Witness ==
    /\ last.op = "_predict_month"
    /\ last.args.year = 2025 /\ last.args.month = 3
    /\ last.res.months_ahead = 3
    /\ Len(last.res.calls) = 1

\* the years y0 .. y0 + n - 1, in order
YearsFrom(y0, n) == [k \in 1 .. (IF n > 0 THEN n ELSE 0) |-> y0 + k - 1]

\* the model calls of the year forecasts of years[1 .. k], in order
RECURSIVE CallsOfYears(_, _, _)
CallsOfYears(mdl, years, k) ==
    IF k = 0 THEN <<>>
    ELSE CallsOfYears(mdl, years, k - 1) \o PredictYear(mdl, years[k]).calls

\* C8 as claimed: the multi-year forecast handed to a caller who supplies a
\* start year and a year count (complete_analysis is given both) has exactly
\* the keys year .. year + count - 1.
C8_CallerStartYear ==
    (/\ last.op = "complete_analysis"
     /\ last.res.status = 200
     /\ last.args.year.kind = "int"
     /\ last.args.chart_years.kind = "int")
    => LET years == YearsFrom(last.args.year.value, last.args.chart_years.value)
           got   == last.res.body.data.multi_year_predictions
       IN  /\ Len(got) = Len(years)
           /\ \A k \in 1 .. Len(got) : got[k].year = years[k]

\* C8 amended: get_multi_year_predictions(years) takes no start year; its
\* keys are exactly the years now .. now + years - 1 counted from the
\* current calendar year, each mapped to that year's 12-entry forecast, and
\* at the first year whose forecast fails it fails, returning no year and
\* calling the model for no later year.
C8_YearsFromCurrentYear ==
    last.op = "get_multi_year_predictions"
    => LET years  == YearsFrom(last.now, last.args.years)
           failed == {k \in 1 .. Len(years) : ~PredictYear(model, years[k]).ok}
       IN  IF failed = {}
           THEN /\ last.res.ok
                /\ Len(last.res.val) = Len(years)
                /\ \A k \in 1 .. Len(years) :
                      /\ last.res.val[k].year = years[k]
                      /\ Len(last.res.val[k].months) = 12
                      /\ last.res.val[k].months = PredictYear(model, years[k]).val
           ELSE LET first == CHOOSE k \in failed : \A j \in failed : k <= j
                IN  /\ ~last.res.ok
                    /\ Len(last.res.val) = 0
                    /\ last.res.err = <<"Multi-year prediction failed">>
                                         \o PredictYear(model, years[first]).err
                    /\ last.res.calls = CallsOfYears(model, years, first)

\* C8 witness: a two-year forecast has been returned while the clock was
\* past the first year a caller can ask about.
C8_Witness ==
    /\ last.op = "get_multi_year_predictions"
    /\ last.args.years = 2
    /\ last.now > 2024
    /\ last.res.ok
    /\ Len(last.res.val) = 2
    /\ last.res.val[1].year = last.now

MonthAbbrev ==
    << <<"J","a","n">>, <<"F","e","b">>, <<"M","a","r">>, <<"A","p","r">>,
       <<"M","a","y">>, <<"J","u","n">>, <<"J","u","l">>, <<"A","u","g">>,
       <<"S","e","p">>, <<"O","c","t">>, <<"N","o","v">>, <<"D","e","c">> >>

TwoDigitYear(year) == <<Digit[((year \div 10) % 10) + 1], Digit[(year % 10) + 1]>>

\* C9: the series handed to the renderer has 12 points per requested year
\* (12 * years for a count years >= 0; none for a negative count, which
\* requests no year), years ascending from the current year and months
\* January..December within a year; each label is the month's 3-letter
\* abbreviation, a space and the 2-digit year, each price that month's
\* predicted price.
C9_ChartSeries ==
    (last.op = "generate_price_chart" /\ last.res.ok)
    => LET years == YearsFrom(last.now, last.args.years)
           n     == IF last.args.years > 0 THEN last.args.years ELSE 0
       IN  /\ Len(last.res.plotted) = 12 * n
           /\ \A k \in 1 .. n : \A i \in 1 .. 12 :
                 last.res.plotted[12 * (k - 1) + i]
                    = [label |-> MonthAbbrev[i] \o <<" ">> \o TwoDigitYear(years[k]),
                       price |-> PredictMonth(model, years[k], i).val.predicted_price]

\* C9 witness: a chart of two years has been plotted, 24 points whose
\* prices are not all equal.
C9_Witness ==
    /\ last.op = "generate_price_chart"
    /\ last.res.ok
    /\ last.args.years = 2
    /\ Len(last.res.plotted) = 24
    /\ last.res.plotted[1].price # last.res.plotted[24].price

\* the rows of a series whose date lies in the month (year, month)
RowsOfMonth(rows, year, month) ==
    {i \in 1 .. Len(rows) : rows[i].ds.year = year /\ rows[i].ds.month = month}

\* C10: for a month of horizon h > 0 the model is asked once, for exactly h
\* periods; the answer carries the rounded estimate and bounds of a row of
\* the returned series dated in that month, and when the series has no such
\* row the call fails with the not-found error wrapped as the month-level
\* failure: no other row's values are returned.  When the series holds the
\* h months that follow the cutoff month, the row exists and the call
\* succeeds.
C10_TargetRowOrFailure ==
    (last.op = "_predict_month" /\ last.res.months_ahead > 0)
    => LET year    == last.args.year
           month   == last.args.month
           h       == (year - 2024) * 12 + (month - 12)
           series  == Predict(model, h)
           matches == RowsOfMonth(series.rows, year, month)
       IN  /\ Len(last.res.calls) = 1
           /\ last.res.calls[1].periods = h
           /\ series.raised =>
                 /\ ~last.res.ok
                 /\ last.res.err = <<"Month prediction failed", "model error">>
           /\ (~series.raised /\ matches = {}) =>
                 /\ ~last.res.ok
                 /\ last.res.err = <<"Month prediction failed", "No prediction found">>
           /\ (~series.raised /\ matches # {}) =>
                 /\ last.res.ok
                 /\ last.res.val.month = MonthName[month]
                 /\ last.res.val.year = year
                 /\ \E i \in matches :
                       /\ last.res.val.predicted_price = Round2(series.rows[i].yhat)
                       /\ last.res.val.lower_bound = Round2(series.rows[i].yhat_lower)
                       /\ last.res.val.upper_bound = Round2(series.rows[i].yhat_upper)
           /\ (/\ ~series.raised
               /\ \A p \in 1 .. h :
                     RowsOfMonth(series.rows, MonthAfterCutoff(p).year,
                                 MonthAfterCutoff(p).month) # {})
              => last.res.ok

\* C10 witness: a month three or more periods past the cutoff has been
\* forecast from a series whose last row is that month's and whose other
\* rows carry other prices.
C10_Witness ==
    /\ last.op = "_predict_month"
    /\ last.res.months_ahead >= 3
    /\ last.res.ok
    /\ Len(last.res.calls) = 1
    /\ LET series == Predict(model, last.res.months_ahead)
       IN  /\ Len(series.rows) > last.res.months_ahead
           /\ Round2(series.rows[1].yhat) # last.res.val.predicted_price

====
